---- MODULE Spec2Model ----
(***************************************************************************)
(* Model of the ai-platform backend: the Celery mock-training application  *)
(* of backend/main.py, and the database routers (projects, upload,         *)
(* training, inference) of backend/app/routers.                            *)
(***************************************************************************)
EXTENDS Integers, Sequences, FiniteSets, Bags, TLC

\* ------------------------------------------------------------------------
\* Bounds of the model
\* ------------------------------------------------------------------------
MaxTasks == 2
MaxDeploys == 2
MaxProjects == 2
MaxReqs == 2
MaxJobs == 2
MaxDatasets == 2
MaxModels == 2
MaxCalls == 2
MaxCols == 2
MaxLen == 3
MaxWorkers == 2
MaxRows == 6
MaxPageRows == 4
MaxPage == 7
MaxTotal == 30

\* ------------------------------------------------------------------------
\* State
\* ------------------------------------------------------------------------
VARIABLES
  app,           \* which FastAPI application / router set is running
  celery,        \* result backend of celery_app.py: task id -> meta
  lastProgress,  \* per job, the progress the client saw at its last poll
  nModels,       \* how many model ids deploy_model has generated
  text,          \* request.text of the predict_with_model request just answered
  resp,          \* the HTTP response of the step just taken (NoResp if none)
  plan,          \* User.subscription_plan of every user
  projects,      \* table of Project rows: id -> row
  nProjects,     \* how many Project ids have been generated
  reqs,          \* bag of requests suspended at an await between two queries
  datasets,      \* table of Dataset rows: id -> row
  jobs,          \* table of TrainingJob rows: id -> row
  trainTasks,    \* train_ml_model tasks of the worker: job id -> task
  nJobs,         \* how many TrainingJob ids have been generated
  columns,       \* DatasetColumn rows: dataset_id -> number of rows
  files,         \* uploaded_files/: the file ids whose file is on disk
  schema,        \* what the database does to DatasetColumn rows on delete
  nDatasets,     \* how many file ids upload_file has generated
  uploader,      \* per file id, the user whose upload_file request made it
  models,        \* table of DeployedModel rows: id -> row
  loaded,        \* the model ids whose artifact joblib.load has read
  df,            \* the pandas DataFrame read from the file at hand
  col_info,      \* what process_file recorded for the column analysed
  preview        \* the body of the last get_dataset_preview response

mainVars == <<celery, lastProgress, nModels, text>>
projectVars == <<plan, projects, nProjects, reqs>>
trainVars == <<jobs, trainTasks, nJobs>>
uploadVars == <<datasets, columns, files, schema, nDatasets, uploader>>
frameVars == <<df, col_info, preview>>
inferVars == <<models, loaded>>
dbVars == <<projectVars, uploadVars, trainVars, inferVars>>
vars == <<app, celery, lastProgress, nModels, text, resp, plan, projects,
          nProjects, reqs, datasets, jobs, trainTasks, nJobs, columns,
          files, schema, nDatasets, uploader, models, loaded,
          df, col_info, preview>>

Users == {"alice", "bob"}
TaskIds == 1..MaxTasks

NoResp ==
  [op |-> "none", user |-> "none", id |-> 0, code |-> 0, state |-> "none",
   progress |-> 0, result |-> "none", model_id |-> 0, endpoint |-> 0,
   owner |-> "none", ids |-> {}, workers |-> 0]

Reply(op, user, id, code) ==
  [NoResp EXCEPT !.op = op, !.user = user, !.id = id, !.code = code]

\* ------------------------------------------------------------------------
\* celery_app.py: the tasks
\* ------------------------------------------------------------------------
stepsSwapped == <<20, 60, 40, 80, 100>>

\* The progress values mock_training_task publishes, in order.
steps == <<20, 40, 60, 80, 100>>

\* test_task publishes (i + 1) * 20 for i in range(5)
TestProgress(i) == (i + 1) * 20

\* Meta of a task id the backend knows nothing about: state PENDING.
NoTask == [kind |-> "none", state |-> "PENDING", pos |-> 0, progress |-> 0]

\* uuid.uuid4(): an id never used before
FreshTaskId == CHOOSE j \in TaskIds :
                 /\ celery[j].kind = "none"
                 /\ \A k \in TaskIds : celery[k].kind = "none" => j <= k

HasFreshTaskId == \E j \in TaskIds : celery[j].kind = "none"

Running(j) == celery[j].state \in {"STARTED", "PROGRESS"}

\* The worker (worker_pool='solo', worker_concurrency=1) picks the task up
\* when it runs no other task (task_track_started=True).
WorkerStart(j) ==
  /\ app = "main"
  /\ celery[j].kind # "none"
  /\ celery[j].state = "PENDING"
  /\ \A k \in TaskIds : ~Running(k)
  /\ celery' = [celery EXCEPT ![j].state = "STARTED"]
  /\ resp' = NoResp
  /\ UNCHANGED <<app, frameVars, lastProgress, nModels, text, dbVars>>

\* One iteration of the loop of mock_training_task: update_state(PROGRESS).
MockTrainingStep(j) ==
  /\ app = "main"
  /\ celery[j].kind = "train"
  /\ Running(j)
  /\ celery[j].pos < Len(steps)
  /\ celery' = [celery EXCEPT ![j].state = "PROGRESS",
                              ![j].pos = @ + 1,
                              ![j].progress = steps[celery[j].pos + 1]]
  /\ resp' = NoResp
  /\ UNCHANGED <<app, frameVars, lastProgress, nModels, text, dbVars>>

\* mock_training_task returns its result dict: state SUCCESS.
MockTrainingReturn(j) ==
  /\ app = "main"
  /\ celery[j].kind = "train"
  /\ Running(j)
  /\ celery[j].pos = Len(steps)
  /\ celery' = [celery EXCEPT ![j].state = "SUCCESS"]
  /\ resp' = NoResp
  /\ UNCHANGED <<app, frameVars, lastProgress, nModels, text, dbVars>>

\* An exception inside the try block: state FAILURE and re-raise.
MockTrainingFail(j) ==
  /\ app = "main"
  /\ celery[j].kind = "train"
  /\ Running(j)
  /\ celery' = [celery EXCEPT ![j].state = "FAILURE"]
  /\ resp' = NoResp
  /\ UNCHANGED <<app, frameVars, lastProgress, nModels, text, dbVars>>

\* One iteration of the loop of test_task.
TestTaskStep(j) ==
  /\ app = "main"
  /\ celery[j].kind = "test"
  /\ Running(j)
  /\ celery[j].pos < 5
  /\ celery' = [celery EXCEPT ![j].state = "PROGRESS",
                              ![j].pos = @ + 1,
                              ![j].progress = TestProgress(celery[j].pos)]
  /\ resp' = NoResp
  /\ UNCHANGED <<app, frameVars, lastProgress, nModels, text, dbVars>>

\* test_task returns its result, a string.
TestTaskReturn(j) ==
  /\ app = "main"
  /\ celery[j].kind = "test"
  /\ Running(j)
  /\ celery[j].pos = 5
  /\ celery' = [celery EXCEPT ![j].state = "SUCCESS"]
  /\ resp' = NoResp
  /\ UNCHANGED <<app, frameVars, lastProgress, nModels, text, dbVars>>

\* task_result.result of a finished task: a dict for the training task,
\* a string for the test task.
TaskResult(j) ==
  IF celery[j].state # "SUCCESS" THEN "none"
  ELSE IF celery[j].kind = "train" THEN "dict" ELSE "str"

\* ------------------------------------------------------------------------
\* main.py: the endpoints
\* ------------------------------------------------------------------------
\* Every endpoint below depends on current_active_user only to authenticate
\* the caller; any active user may call it with any job id.
\* POST /training/start
MainStartTraining ==
  /\ app = "main"
  /\ HasFreshTaskId
  /\ celery' = [celery EXCEPT ![FreshTaskId] =
                  [kind |-> "train", state |-> "PENDING", pos |-> 0,
                   progress |-> 0]]
  /\ resp' = [Reply("start", "none", FreshTaskId, 200) EXCEPT !.state = "started"]
  /\ UNCHANGED <<app, frameVars, lastProgress, nModels, text, dbVars>>

\* POST /training/test
TestTrainingSystem ==
  /\ app = "main"
  /\ HasFreshTaskId
  /\ celery' = [celery EXCEPT ![FreshTaskId] =
                  [kind |-> "test", state |-> "PENDING", pos |-> 0,
                   progress |-> 0]]
  /\ resp' = Reply("test", "none", FreshTaskId, 200)
  /\ UNCHANGED <<app, frameVars, lastProgress, nModels, text, dbVars>>

\* The progress field of the body of GET /training/{job_id}/status.
StatusProgress(j) ==
  IF celery[j].state = "PENDING" THEN 0
  ELSE IF celery[j].state = "PROGRESS" THEN celery[j].progress
  ELSE IF celery[j].state = "SUCCESS" THEN 100
  ELSE 0

\* GET /training/{job_id}/status
MainGetTrainingStatus(j) ==
  /\ app = "main"
  /\ resp' = [Reply("status", "none", j, 200) EXCEPT
                !.state = celery[j].state,
                !.progress = StatusProgress(j),
                !.result = TaskResult(j)]
  /\ lastProgress' = [lastProgress EXCEPT ![j] = StatusProgress(j)]
  /\ UNCHANGED <<app, frameVars, celery, nModels, text, dbVars>>

\* The status code of GET /training/{job_id}/results.
ResultsCode(j) == IF celery[j].state # "SUCCESS" THEN 400 ELSE 200

\* GET /training/{job_id}/results
MainGetTrainingResults(j) ==
  /\ app = "main"
  /\ resp' = IF ResultsCode(j) = 400
             THEN Reply("results", "none", j, 400)
             ELSE [Reply("results", "none", j, 200) EXCEPT
                     !.state = celery[j].state,
                     !.result = TaskResult(j)]
  /\ UNCHANGED <<app, frameVars, celery, lastProgress, nModels, text, dbVars>>

DeployCodeLax(j) == IF celery[j].state = "PENDING" THEN 400 ELSE 200

\* The status code of POST /training/{job_id}/deploy: 400 unless SUCCESS;
\* training_results.get(...) raises on a result that is not a dict.
DeployCode(j) ==
  IF celery[j].state # "SUCCESS" THEN 400
  ELSE IF TaskResult(j) # "dict" THEN 500
  ELSE 200

\* POST /training/{job_id}/deploy
DeployModel(j) ==
  /\ app = "main"
  /\ DeployCode(j) = 200 => nModels < MaxDeploys
  /\ IF DeployCode(j) = 200
     THEN /\ nModels' = nModels + 1
          /\ resp' = [Reply("deploy", "none", j, 200) EXCEPT
                        !.model_id = nModels + 1,
                        !.endpoint = nModels + 1]
     ELSE /\ nModels' = nModels
          /\ resp' = Reply("deploy", "none", j, DeployCode(j))
  /\ UNCHANGED <<app, frameVars, celery, lastProgress, text, dbVars>>

\* ------------------------------------------------------------------------
\* No file has been read
\* ------------------------------------------------------------------------
NoDf == [total |-> 0, nulls |-> 0, uniques |-> 0, name |-> << >>]

NoColInfo == [analysed |-> FALSE, is_recommended_target |-> FALSE]

NoPreview ==
  [code |-> 0, data |-> {}, rows_shown |-> 0, total_rows |-> 0,
   current_page |-> 0, rows_per_page |-> 0, total_pages |-> 0,
   has_next |-> FALSE, has_previous |-> FALSE]

NoFrame ==
  /\ df = NoDf
  /\ col_info = NoColInfo
  /\ preview = NoPreview

\* ------------------------------------------------------------------------
\* The database before any request
\* ------------------------------------------------------------------------
Plans == {"free", "starter", "professional", "enterprise", "trial"}

\* The subscription plans of the users, as registered.
PlanAssignments ==
  { [u \in Users |-> "free"],
    [u \in Users |-> IF u = "alice" THEN "starter" ELSE "trial"],
    [u \in Users |-> IF u = "alice" THEN "professional" ELSE "enterprise"] }
ProjectIds == 1..MaxProjects

\* The fields of the ProjectUpdate schema.
ProjectUpdateFields ==
  {"name", "description", "status", "dataset_uploaded", "model_trained",
   "model_deployed", "accuracy", "api_endpoint"}

NoProject ==
  [exists |-> FALSE, user_id |-> "none",
   attrs |-> [f \in ProjectUpdateFields |-> "old"]]

DatasetIds == 1..MaxDatasets
JobIds == 1..MaxJobs

NoDataset == [exists |-> FALSE, project_id |-> 0, ext |-> "none"]

NoJob ==
  [exists |-> FALSE, project_id |-> 0, dataset_id |-> 0, status |-> "none",
   progress |-> 0, accuracy |-> "none"]

\* A train_ml_model task that was never sent.
NoTrainTask == [state |-> "none", pos |-> 0, retries |-> 0, runs |-> 0]

ModelIds == 1..MaxModels

NoModel ==
  [exists |-> FALSE, status |-> "none", api_calls_count |-> 0,
   loadable |-> FALSE]

\* What deleting a Dataset row does to the DatasetColumn rows that refer to
\* it: nothing, delete them too, or refuse the delete.
Schemas == {"kept", "cascade", "restrict"}

NoInference ==
  /\ models = [m \in ModelIds |-> NoModel]
  /\ loaded = {}

NoUpload ==
  /\ datasets = [d \in DatasetIds |-> NoDataset]
  /\ columns = [d \in DatasetIds |-> 0]
  /\ files = {}
  /\ nDatasets = 0
  /\ uploader = [d \in DatasetIds |-> "none"]

NoTraining ==
  /\ NoUpload
  /\ schema = "kept"
  /\ NoInference
  /\ jobs = [j \in JobIds |-> NoJob]
  /\ trainTasks = [j \in JobIds |-> NoTrainTask]
  /\ nJobs = 0

NoCelery ==
  /\ celery = [j \in TaskIds |-> NoTask]
  /\ lastProgress = [j \in TaskIds |-> 0]
  /\ nModels = 0
  /\ text = << >>

EmptyDb ==
  /\ plan = [u \in Users |-> "free"]
  /\ projects = [p \in ProjectIds |-> NoProject]
  /\ nProjects = 0
  /\ reqs = EmptyBag
  /\ NoTraining

\* ------------------------------------------------------------------------
\* The application of main.py
\* ------------------------------------------------------------------------
InitMain ==
  /\ app = "main"
  /\ NoFrame
  /\ EmptyDb
  /\ NoCelery
  /\ resp = NoResp

NextMain ==
  \/ MainStartTraining
  \/ TestTrainingSystem
  \/ \E j \in TaskIds : WorkerStart(j)
  \/ \E j \in TaskIds : MockTrainingStep(j)
  \/ \E j \in TaskIds : MockTrainingReturn(j)
  \/ \E j \in TaskIds : MockTrainingFail(j)
  \/ \E j \in TaskIds : TestTaskStep(j)
  \/ \E j \in TaskIds : TestTaskReturn(j)
  \/ \E j \in TaskIds : MainGetTrainingStatus(j)
  \/ \E j \in TaskIds : MainGetTrainingResults(j)
  \/ \E j \in TaskIds : DeployModel(j)

SpecMain == InitMain /\ [][NextMain]_vars

\* ------------------------------------------------------------------------
\* Claims about main.py and celery_app.py
\* ------------------------------------------------------------------------
IsJob(j) == celery[j].kind # "test"

\* C1 (state part): a deploy of a job answers 200 exactly when the task
\* state of the job is SUCCESS, and then returns the newest model id and the
\* endpoint of that model id; otherwise it answers 400 without a model id.
C1_DeployAnswer ==
  (resp.op = "deploy" /\ IsJob(resp.id)) =>
     /\ resp.code = 200 <=> celery[resp.id].state = "SUCCESS"
     /\ resp.code = 200 =>
           resp.model_id = nModels /\ resp.endpoint = resp.model_id
     /\ resp.code # 200 => resp.code = 400 /\ resp.model_id = 0

\* C1 (step part): a job that is SUCCESS stays SUCCESS, and a model id
\* returned by deploy was never returned before.
C1_Step ==
  /\ \A j \in TaskIds :
        celery[j].state = "SUCCESS" => celery'[j].state = "SUCCESS"
  /\ (resp'.op = "deploy" /\ resp'.code = 200) => resp'.model_id > nModels

C3_Reported ==
  (resp.op = "status" /\ celery[resp.id].kind = "train") =>
     /\ celery[resp.id].state \in {"PENDING", "STARTED"} => resp.progress = 0
     /\ celery[resp.id].state = "SUCCESS" => resp.progress = 100
     /\ celery[resp.id].state = "PROGRESS" =>
           resp.progress = celery[resp.id].progress

\* C3 (step part): the task publishes 20, 40, 60, 80, 100 in that order and
\* becomes SUCCESS only after 100; the progress seen by a poll of a task that
\* has not failed is at least the progress seen by the poll before.
C3_Step ==
  \A j \in TaskIds :
    celery[j].kind = "train" =>
      /\ (celery'[j] # celery[j] /\ celery'[j].state = "PROGRESS") =>
            celery'[j].progress =
              (IF celery[j].state = "PROGRESS" THEN celery[j].progress + 20
               ELSE 20)
      /\ (celery[j].state # "SUCCESS" /\ celery'[j].state = "SUCCESS") =>
            celery[j].state = "PROGRESS" /\ celery[j].progress = 100
      /\ celery'[j].state # "FAILURE" => lastProgress'[j] >= lastProgress[j]

PlanLimit(p) ==
  CASE p = "free" -> 1
    [] p = "starter" -> 5
    [] p = "professional" -> 25
    [] p = "enterprise" -> 999
    [] OTHER -> 1

\* select(Project).where(Project.user_id == current_user.id)
UserProjects(u) ==
  {p \in ProjectIds : projects[p].exists /\ projects[p].user_id = u}

\* select(Project).where(Project.id == project_id,
\*                       Project.user_id == current_user.id)
OwnedProject(u, p) == projects[p].exists /\ projects[p].user_id = u

InFlight(op) == {r \in BagToSet(reqs) : r.op = op}

PendingCreates ==
  LET c == InFlight("create")
  IN  IF c = {} THEN 0
      ELSE BagCardinality([r \in c |-> reqs[r]])

Request(op, u, p) == [op |-> op, user |-> u, pid |-> p]

\* create_project up to its commit: the select of the user's projects and
\* the limit check.  A request over the limit is answered 403 at once; any
\* other request is suspended at "await session.commit()".
CreateProjectCheck(u) ==
  /\ app = "backend"
  /\ BagCardinality(reqs) < MaxReqs
  /\ nProjects + PendingCreates < MaxProjects
  /\ IF Cardinality(UserProjects(u)) >= PlanLimit(plan[u])
     THEN /\ resp' = Reply("create_project", u, 0, 403)
          /\ reqs' = reqs
     ELSE /\ resp' = NoResp
          /\ reqs' = reqs (+) SetToBag({Request("create", u, 0)})
  /\ UNCHANGED <<app, frameVars, mainVars, plan, projects, nProjects, uploadVars, trainVars, inferVars>>

\* create_project from its commit on: the row is inserted under a new id.
CreateProjectCommit(u) ==
  /\ app = "backend"
  /\ Request("create", u, 0) \in BagToSet(reqs)
  /\ reqs' = reqs (-) SetToBag({Request("create", u, 0)})
  /\ nProjects' = nProjects + 1
  /\ projects' = [projects EXCEPT ![nProjects + 1] =
                    [NoProject EXCEPT !.exists = TRUE, !.user_id = u]]
  /\ resp' = [Reply("create_project", u, nProjects + 1, 200) EXCEPT
                !.owner = u]
  /\ UNCHANGED <<app, frameVars, mainVars, plan, uploadVars, trainVars, inferVars>>

\* get_user_projects
GetUserProjects(u) ==
  /\ app = "backend"
  /\ resp' = [Reply("get_user_projects", u, 0, 200) EXCEPT
                !.ids = UserProjects(u)]
  /\ UNCHANGED <<app, frameVars, mainVars, dbVars>>

\* get_project
GetProject(u, p) ==
  /\ app = "backend"
  /\ resp' = IF ~OwnedProject(u, p)
             THEN Reply("get_project", u, p, 404)
             ELSE [Reply("get_project", u, p, 200) EXCEPT
                     !.owner = projects[p].user_id]
  /\ UNCHANGED <<app, frameVars, mainVars, dbVars>>

\* Request bodies of PUT /projects/{project_id}: key -> value.
Bodies ==
  { [k \in {"name"} |-> "new"],
    [k \in {"status", "accuracy"} |-> "new"],
    [k \in {"user_id"} |-> "bob"],
    [k \in {"user_id", "name"} |-> IF k = "user_id" THEN "alice" ELSE "new"],
    [k \in {} |-> "new"] }

UpdateDataLax(body) == body

\* ProjectUpdate(**body).dict(exclude_unset=True): the keys of the body that
\* are fields of the schema.
UpdateData(body) ==
  [k \in (DOMAIN body) \cap ProjectUpdateFields |-> body[k]]

\* for field, value in update_data.items(): setattr(project, field, value)
SetAttrs(row, data) ==
  [row EXCEPT
     !.user_id = IF "user_id" \in DOMAIN data THEN data["user_id"] ELSE @,
     !.attrs = [f \in ProjectUpdateFields |->
                  IF f \in DOMAIN data THEN data[f] ELSE row.attrs[f]]]

\* update_project
UpdateProject(u, p, body) ==
  /\ app = "backend"
  /\ IF ~OwnedProject(u, p)
     THEN /\ resp' = Reply("update_project", u, p, 404)
          /\ projects' = projects
     ELSE /\ projects' = [projects EXCEPT
                            ![p] = SetAttrs(projects[p], UpdateData(body))]
          /\ resp' = [Reply("update_project", u, p, 200) EXCEPT
                        !.owner = projects'[p].user_id]
  /\ UNCHANGED <<app, frameVars, mainVars, plan, nProjects, reqs, uploadVars, trainVars, inferVars>>

\* delete_project up to session.delete: the select of the owned project.
\* Not found is answered 404 at once; otherwise the request is suspended at
\* "await session.delete(project)".
DeleteProjectCheck(u, p) ==
  /\ app = "backend"
  /\ BagCardinality(reqs) < MaxReqs
  /\ IF ~OwnedProject(u, p)
     THEN /\ resp' = Reply("delete_project", u, p, 404)
          /\ reqs' = reqs
     ELSE /\ resp' = NoResp
          /\ reqs' = reqs (+) SetToBag({Request("delete", u, p)})
  /\ UNCHANGED <<app, frameVars, mainVars, plan, projects, nProjects, uploadVars, trainVars, inferVars>>

\* delete_project from session.delete on: the row is deleted and committed.
DeleteProjectCommit(u, p) ==
  /\ app = "backend"
  /\ Request("delete", u, p) \in BagToSet(reqs)
  /\ reqs' = reqs (-) SetToBag({Request("delete", u, p)})
  /\ projects' = [projects EXCEPT ![p] = NoProject]
  /\ resp' = Reply("delete_project", u, p, 200)
  /\ UNCHANGED <<app, frameVars, mainVars, plan, nProjects, uploadVars, trainVars, inferVars>>

\* ------------------------------------------------------------------------
\* The application of backend/main.py, projects router
\* ------------------------------------------------------------------------
InitProjects ==
  /\ app = "backend"
  /\ NoFrame
  /\ NoCelery
  /\ resp = NoResp
  /\ plan \in PlanAssignments
  /\ projects = [p \in ProjectIds |-> NoProject]
  /\ nProjects = 0
  /\ reqs = EmptyBag
  /\ NoTraining

NextProjects ==
  \/ \E u \in Users : CreateProjectCheck(u)
  \/ \E u \in Users : CreateProjectCommit(u)
  \/ \E u \in Users : GetUserProjects(u)
  \/ \E u \in Users, p \in ProjectIds : GetProject(u, p)
  \/ \E u \in Users, p \in ProjectIds, b \in Bodies : UpdateProject(u, p, b)
  \/ \E u \in Users, p \in ProjectIds : DeleteProjectCheck(u, p)
  \/ \E u \in Users, p \in ProjectIds : DeleteProjectCommit(u, p)

SpecProjects == InitProjects /\ [][NextProjects]_vars

\* C6: under every interleaving of create_project and delete_project
\* requests, the number of stored projects of a user never exceeds the limit
\* of the user's subscription plan.
C6_ProjectLimit ==
  \A u \in Users : Cardinality(UserProjects(u)) <= PlanLimit(plan[u])

\* C9 (step): what one step of the projects router may do to the projects
\* of another user, and what it may return.
C9_Step ==
  /\ (/\ resp'.op \in {"get_project", "update_project", "delete_project"}
      /\ projects[resp'.id].exists
      /\ projects[resp'.id].user_id # resp'.user)
        => resp'.code = 404 /\ projects' = projects
  /\ (resp'.op \in {"get_project", "update_project"} /\ resp'.code = 200)
        => resp'.owner = resp'.user
  /\ resp'.op = "get_user_projects" =>
        \A p \in resp'.ids :
          projects[p].exists /\ projects[p].user_id = resp'.user
  /\ \A p \in ProjectIds :
        (projects[p].exists /\ projects'[p].exists) =>
           projects'[p].user_id = projects[p].user_id

\* C9: get_project, update_project and delete_project called by a user who
\* is not the owner answer 404 and leave the projects unchanged,
\* get_user_projects lists only projects of the caller, and no update_project
\* changes the user_id of a project.
C9_ProjectIsolation == [][C9_Step]_vars

\* C9 witness: an update by a user who is not the owner was answered 404 for
\* a project its owner had updated before.
C9_Witness ==
  /\ resp.op = "update_project" /\ resp.code = 404
  /\ projects[resp.id].exists /\ projects[resp.id].user_id # resp.user
  /\ projects[resp.id].attrs["name"] = "new"

\* ------------------------------------------------------------------------
\* tasks/training_tasks.py: train_ml_model
\* ------------------------------------------------------------------------
max_retries_more == 2 + 1

\* self.retry(exc=e, countdown=60, max_retries=2)
max_retries == 2

\* update(TrainingJob).where(TrainingJob.id == job_id).values(...)
update_job_status(j, status, progress, hasResults) ==
  [jobs EXCEPT ![j] =
     IF ~jobs[j].exists THEN @
     ELSE [@ EXCEPT !.status = status,
                    !.progress = progress,
                    !.accuracy = IF status = "completed" /\ hasResults
                                 THEN "set" ELSE @]]

TrainRunning(j) == trainTasks[j].state = "STARTED"

\* The worker (--concurrency=1) takes the task from the queue, first or
\* after a retry, and the body starts: update_job_status(preprocessing, 10).
TrainBegin(j) ==
  /\ app = "training"
  /\ trainTasks[j].state \in {"PENDING", "RETRY"}
  /\ \A k \in JobIds : ~TrainRunning(k)
  /\ trainTasks' = [trainTasks EXCEPT ![j].state = "STARTED",
                                      ![j].pos = 1,
                                      ![j].runs = @ + 1]
  /\ jobs' = update_job_status(j, "preprocessing", 10, FALSE)
  /\ resp' = NoResp
  /\ UNCHANGED <<app, frameVars, mainVars, projectVars, uploadVars, inferVars, nJobs>>

\* dataset_path.endswith('.csv') / ('.xlsx', '.xls')
Loadable(j) ==
  LET d == jobs[j].dataset_id
  IN  d \in DatasetIds /\ datasets[d].ext \in {".csv", ".xlsx", ".xls"}

\* The dataset is read: update_job_status(preprocessing, 20).
TrainLoad(j) ==
  /\ app = "training"
  /\ TrainRunning(j) /\ trainTasks[j].pos = 1
  /\ Loadable(j)
  /\ trainTasks' = [trainTasks EXCEPT ![j].pos = 2]
  /\ jobs' = update_job_status(j, "preprocessing", 20, FALSE)
  /\ resp' = NoResp
  /\ UNCHANGED <<app, frameVars, mainVars, projectVars, uploadVars, inferVars, nJobs>>

\* trainer.preprocess_data returns: update_job_status(training, 40).
TrainPreprocess(j) ==
  /\ app = "training"
  /\ TrainRunning(j) /\ trainTasks[j].pos = 2
  /\ trainTasks' = [trainTasks EXCEPT ![j].pos = 3]
  /\ jobs' = update_job_status(j, "training", 40, FALSE)
  /\ resp' = NoResp
  /\ UNCHANGED <<app, frameVars, mainVars, projectVars, uploadVars, inferVars, nJobs>>

\* trainer.train_model returns: update_job_status(training, 80).
TrainFit(j) ==
  /\ app = "training"
  /\ TrainRunning(j) /\ trainTasks[j].pos = 3
  /\ trainTasks' = [trainTasks EXCEPT ![j].pos = 4]
  /\ jobs' = update_job_status(j, "training", 80, FALSE)
  /\ resp' = NoResp
  /\ UNCHANGED <<app, frameVars, mainVars, projectVars, uploadVars, inferVars, nJobs>>

\* trainer.save_model returns: update_job_status(completed, 100, results),
\* and the task returns its result.
TrainComplete(j) ==
  /\ app = "training"
  /\ TrainRunning(j) /\ trainTasks[j].pos = 4
  /\ trainTasks' = [trainTasks EXCEPT ![j].pos = 5, ![j].state = "SUCCESS"]
  /\ jobs' = update_job_status(j, "completed", 100, TRUE)
  /\ resp' = NoResp
  /\ UNCHANGED <<app, frameVars, mainVars, projectVars, uploadVars, inferVars, nJobs>>

\* An exception in the try block (an unsupported file format, or whatever
\* pandas, the trainer or the database raise): update_job_status(failed, 0)
\* and self.retry, which sends the task again while request.retries is
\* below max_retries and raises the exception otherwise.
TrainFail(j) ==
  /\ app = "training"
  /\ TrainRunning(j) /\ trainTasks[j].pos \in 1..4
  /\ jobs' = update_job_status(j, "failed", 0, FALSE)
  /\ trainTasks' =
       IF trainTasks[j].retries < max_retries
       THEN [trainTasks EXCEPT ![j].state = "RETRY", ![j].pos = 0,
                               ![j].retries = @ + 1]
       ELSE [trainTasks EXCEPT ![j].state = "FAILURE", ![j].pos = 0]
  /\ resp' = NoResp
  /\ UNCHANGED <<app, frameVars, mainVars, projectVars, uploadVars, inferVars, nJobs>>

\* ------------------------------------------------------------------------
\* app/routers/training.py
\* ------------------------------------------------------------------------
StartCodeNoOwner(u, p, d) ==
  IF ~(p \in ProjectIds /\ projects[p].exists) THEN 404
  ELSE IF ~(d \in DatasetIds /\ datasets[d].exists) THEN 404
  ELSE 200

\* The status code of start_training: 404 unless the project exists and is
\* the caller's, 404 unless the dataset exists.
StartCode(u, p, d) ==
  IF ~(p \in ProjectIds /\ OwnedProject(u, p)) THEN 404
  ELSE IF ~(d \in DatasetIds /\ datasets[d].exists) THEN 404
  ELSE 200

\* start_training
StartTraining(u, p, d) ==
  /\ app = "training"
  /\ IF StartCode(u, p, d) # 200
     THEN /\ resp' = Reply("start_training", u, 0, StartCode(u, p, d))
          /\ UNCHANGED trainVars
     ELSE /\ nJobs < MaxJobs
          /\ nJobs' = nJobs + 1
          /\ jobs' = [jobs EXCEPT ![nJobs + 1] =
                        [exists |-> TRUE, project_id |-> p, dataset_id |-> d,
                         status |-> "pending", progress |-> 0,
                         accuracy |-> "none"]]
          /\ trainTasks' = [trainTasks EXCEPT ![nJobs + 1].state = "PENDING"]
          /\ resp' = [Reply("start_training", u, nJobs + 1, 200) EXCEPT
                        !.state = "pending"]
  /\ UNCHANGED <<app, frameVars, mainVars, projectVars, uploadVars, inferVars>>

JobAccessNoOwner(u, j) == IF ~jobs[j].exists THEN 404 ELSE 200

\* The two checks get_training_status and get_training_results start with:
\* 404 for an unknown job, 403 unless the job's project is the caller's.
JobAccess(u, j) ==
  IF ~jobs[j].exists THEN 404
  ELSE IF ~(jobs[j].project_id \in ProjectIds
            /\ OwnedProject(u, jobs[j].project_id)) THEN 403
  ELSE 200

\* get_training_status of the router
GetTrainingStatus(u, j) ==
  /\ app = "training"
  /\ resp' = IF JobAccess(u, j) # 200
             THEN Reply("job_status", u, j, JobAccess(u, j))
             ELSE [Reply("job_status", u, j, 200) EXCEPT
                     !.state = jobs[j].status,
                     !.progress = jobs[j].progress,
                     !.result = jobs[j].accuracy]
  /\ UNCHANGED <<app, frameVars, mainVars, dbVars>>

JobResultsCodeLax(u, j) == JobAccess(u, j)

\* The status code of get_training_results of the router.
JobResultsCode(u, j) ==
  IF JobAccess(u, j) # 200 THEN JobAccess(u, j)
  ELSE IF jobs[j].status # "completed" THEN 400
  ELSE 200

\* get_training_results of the router
GetTrainingResults(u, j) ==
  /\ app = "training"
  /\ resp' = IF JobResultsCode(u, j) # 200
             THEN Reply("job_results", u, j, JobResultsCode(u, j))
             ELSE [Reply("job_results", u, j, 200) EXCEPT
                     !.state = jobs[j].status,
                     !.result = jobs[j].accuracy]
  /\ UNCHANGED <<app, frameVars, mainVars, dbVars>>

\* ------------------------------------------------------------------------
\* The application of the training router and its worker
\* ------------------------------------------------------------------------
Owned(u) == [NoProject EXCEPT !.exists = TRUE, !.user_id = u]

\* Project tables the projects router can have produced.
ProjectTables ==
  { [p \in ProjectIds |-> IF p = 1 THEN Owned("alice") ELSE NoProject],
    [p \in ProjectIds |-> IF p = 1 THEN Owned("alice")
                          ELSE IF p = 2 THEN Owned("bob") ELSE NoProject] }

\* Dataset tables the upload router can have produced.
DatasetTables ==
  { [d \in DatasetIds |->
       IF d = 1 THEN [exists |-> TRUE, project_id |-> 1, ext |-> ".csv"]
       ELSE NoDataset],
    [d \in DatasetIds |->
       IF d = 1 THEN [exists |-> TRUE, project_id |-> 1, ext |-> ".xls"]
       ELSE NoDataset] }

InitTraining ==
  /\ app = "training"
  /\ NoFrame
  /\ NoCelery
  /\ resp = NoResp
  /\ plan = [u \in Users |-> "free"]
  /\ projects \in ProjectTables
  /\ nProjects = MaxProjects
  /\ reqs = EmptyBag
  /\ datasets \in DatasetTables
  /\ columns = [d \in DatasetIds |-> IF datasets[d].exists THEN 1 ELSE 0]
  /\ files = {d \in DatasetIds : datasets[d].exists}
  /\ uploader = [d \in DatasetIds |->
                   IF datasets[d].exists
                   THEN projects[datasets[d].project_id].user_id
                   ELSE "none"]
  /\ schema = "kept"
  /\ nDatasets = MaxDatasets
  /\ NoInference
  /\ jobs = [j \in JobIds |-> NoJob]
  /\ trainTasks = [j \in JobIds |-> NoTrainTask]
  /\ nJobs = 0

NextTraining ==
  \/ \E u \in Users, p \in ProjectIds, d \in DatasetIds : StartTraining(u, p, d)
  \/ \E j \in JobIds : TrainBegin(j)
  \/ \E j \in JobIds : TrainLoad(j)
  \/ \E j \in JobIds : TrainPreprocess(j)
  \/ \E j \in JobIds : TrainFit(j)
  \/ \E j \in JobIds : TrainComplete(j)
  \/ \E j \in JobIds : TrainFail(j)
  \/ \E u \in Users, j \in JobIds : GetTrainingStatus(u, j)
  \/ \E u \in Users, j \in JobIds : GetTrainingResults(u, j)

SpecTraining == InitTraining /\ [][NextTraining]_vars

\* The application that serves /training/{job_id}/results: main.py or the
\* training router with its worker.
InitResults == InitMain \/ InitTraining

NextResults == NextMain \/ NextTraining

SpecResults == InitResults /\ [][NextResults]_vars

\* ------------------------------------------------------------------------
\* Claims about the training router and train_ml_model
\* ------------------------------------------------------------------------
CallerOwnsJob(u, j) ==
  /\ jobs[j].exists
  /\ jobs[j].project_id \in ProjectIds
  /\ projects[jobs[j].project_id].exists
  /\ projects[jobs[j].project_id].user_id = u

\* C2 (main.py): results of a task that is not SUCCESS are answered 400
\* without a result, results of a SUCCESS task 200 with the stored result.
C2_Main ==
  resp.op = "results" =>
    IF celery[resp.id].state # "SUCCESS"
    THEN resp.code = 400 /\ resp.result = "none"
    ELSE resp.code = 200 /\ resp.result = TaskResult(resp.id)

\* C2 as claimed: GET /training/{job_id}/results answers 400 and discloses
\* no metrics whenever the job is not SUCCESS (main.py) / not 'completed'
\* (training router), and returns the stored result otherwise.
C2_ResultsOnlyWhenCompleted ==
  /\ C2_Main
  /\ resp.op = "job_results" =>
       IF jobs[resp.id].status # "completed"
       THEN resp.code = 400 /\ resp.result = "none"
       ELSE resp.code = 200 /\ resp.result = jobs[resp.id].accuracy

\* C2 amended: as claimed for main.py; in the training router the answer is
\* 400 without metrics for a job that is not 'completed' and the stored
\* result for a completed job when the caller owns the job's project, and
\* 404 or 403 without metrics for every other caller or job.
C2_ResultsOnlyWhenCompletedForOwner ==
  /\ C2_Main
  /\ resp.op = "job_results" =>
       /\ resp.code \in {200, 400, 403, 404}
       /\ resp.code # 200 => resp.result = "none" /\ resp.state = "none"
       /\ resp.code = 200 =>
             /\ jobs[resp.id].status = "completed"
             /\ resp.result = jobs[resp.id].accuracy
             /\ resp.result = "set"
       /\ CallerOwnsJob(resp.user, resp.id) =>
             (resp.code = 400 <=> jobs[resp.id].status # "completed")
       /\ ~CallerOwnsJob(resp.user, resp.id) => resp.code \in {403, 404}

\* C2 witness: the owner asked for the results of a job that had reached
\* 80 % and got 400.
C2_Witness ==
  /\ resp.op = "job_results" /\ resp.code = 400
  /\ CallerOwnsJob(resp.user, resp.id)
  /\ jobs[resp.id].progress = 80

\* C4 as claimed: the body of train_ml_model runs at most once per job.
C4_RunsAtMostOnce == \A j \in JobIds : trainTasks[j].runs <= 1

\* C4 amended: application code sends a failed training task again at most
\* 2 times, so the body of train_ml_model runs at most 3 times per job.
C4_RunsAtMostThrice ==
  \A j \in JobIds :
    /\ trainTasks[j].retries <= 2
    /\ trainTasks[j].runs <= 3
    /\ trainTasks[j].runs <= trainTasks[j].retries + 1

\* C4 witness: a job whose task ran three times and then failed for good.
C4_Witness ==
  \E j \in JobIds :
    /\ trainTasks[j].runs = 3 /\ trainTasks[j].state = "FAILURE"
    /\ jobs[j].status = "failed"

\* C7: the status and the results of a training job go only to the owner of
\* the job's project: an unknown job is answered 404, a job of a project the
\* caller does not own 403, both without any field of the job.
C7_JobsOnlyToOwner ==
  resp.op \in {"job_status", "job_results"} =>
    /\ ~jobs[resp.id].exists => resp.code = 404
    /\ (jobs[resp.id].exists /\ ~CallerOwnsJob(resp.user, resp.id)) =>
          resp.code = 403
    /\ resp.code \in {403, 404} =>
          resp.state = "none" /\ resp.result = "none" /\ resp.progress = 0
    /\ resp.code = 200 => CallerOwnsJob(resp.user, resp.id)

\* C7 witness: the results of a completed job were refused with 403 to a
\* user who does not own the job's project.
C7_Witness ==
  /\ resp.op = "job_results" /\ resp.code = 403
  /\ jobs[resp.id].status = "completed"
  /\ ~CallerOwnsJob(resp.user, resp.id)

StartRejected(u, p, d) ==
  \/ ~projects[p].exists
  \/ projects[p].user_id # u
  \/ ~datasets[d].exists

\* C8 (step): a start_training request for a missing or foreign project or
\* a missing dataset.
C8_Step ==
  \A u \in Users, p \in ProjectIds, d \in DatasetIds :
    (StartTraining(u, p, d) /\ StartRejected(u, p, d)) =>
       /\ resp'.code = 404
       /\ jobs' = jobs /\ trainTasks' = trainTasks /\ nJobs' = nJobs

\* C8: start_training answers 404, stores no TrainingJob row and sends no
\* train_ml_model task when the project does not exist or is not the
\* caller's, or the dataset does not exist.
C8_StartRejected == [][C8_Step]_vars

\* C8 witness: a start_training request was answered 404 after another one
\* had created a job.
C8_Witness ==
  /\ resp.op = "start_training" /\ resp.code = 404
  /\ nJobs = 1 /\ jobs[1].exists /\ ~jobs[2].exists
  /\ trainTasks[2].state = "none"

\* ------------------------------------------------------------------------
\* app/routers/inference.py
\* ------------------------------------------------------------------------
DeployedRowAnyStatus(m) == models[m].exists

\* select(DeployedModel).where(DeployedModel.id == model_id,
\*                             DeployedModel.status == "deployed")
DeployedRow(m) == models[m].exists /\ models[m].status = "deployed"

\* The classes a stored model predicts.
Classes == {"layanan", "pengaduan"}

\* predict: 404 without a deployed row; otherwise the model is loaded, and
\* either the prediction is made and api_calls_count incremented and
\* committed, or an exception is answered 500.
Predict(m) ==
  /\ app = "inference"
  /\ IF ~DeployedRow(m)
     THEN /\ resp' = Reply("predict", "none", m, 404)
          /\ UNCHANGED inferVars
     ELSE /\ loaded' = loaded \cup {m}
          /\ IF models[m].loadable
             THEN /\ models[m].api_calls_count < MaxCalls
                  /\ models' = [models EXCEPT ![m].api_calls_count = @ + 1]
                  /\ \E c \in Classes :
                       resp' = [Reply("predict", "none", m, 200) EXCEPT
                                  !.result = c]
             ELSE /\ models' = models
                  /\ resp' = Reply("predict", "none", m, 500)
  /\ UNCHANGED <<app, frameVars, mainVars, projectVars, uploadVars, trainVars>>

\* The DeployedModel rows the database can hold.
ModelRows ==
  { NoModel,
    [exists |-> TRUE, status |-> "deployed", api_calls_count |-> 0,
     loadable |-> TRUE],
    [exists |-> TRUE, status |-> "deployed", api_calls_count |-> 0,
     loadable |-> FALSE],
    [exists |-> TRUE, status |-> "inactive", api_calls_count |-> 0,
     loadable |-> TRUE] }

InitInference ==
  /\ app = "inference"
  /\ NoFrame
  /\ NoCelery
  /\ resp = NoResp
  /\ plan = [u \in Users |-> "free"]
  /\ projects = [p \in ProjectIds |-> NoProject]
  /\ nProjects = 0
  /\ reqs = EmptyBag
  /\ NoUpload
  /\ schema = "kept"
  /\ jobs = [j \in JobIds |-> NoJob]
  /\ trainTasks = [j \in JobIds |-> NoTrainTask]
  /\ nJobs = 0
  /\ models \in [ModelIds -> ModelRows]
  /\ loaded = {}

NextInference == \E m \in ModelIds : Predict(m)

SpecInference == InitInference /\ [][NextInference]_vars

\* C5 (step): what a prediction request does.
C5_Step ==
  resp'.op = "predict" =>
    /\ resp'.code = 200 =>
          /\ models[resp'.id].exists
          /\ models[resp'.id].status = "deployed"
          /\ resp'.result \in Classes
    /\ ~(models[resp'.id].exists /\ models[resp'.id].status = "deployed") =>
          /\ resp'.code = 404
          /\ resp'.result = "none"
          /\ loaded' = loaded
          /\ \A k \in ModelIds :
                models'[k].api_calls_count = models[k].api_calls_count

\* C5: predict of the inference router produces a prediction only for a
\* DeployedModel row with status 'deployed'; for every other model_id it
\* answers 404, loads no model and changes no api_calls_count.
C5_PredictOnlyDeployed == [][C5_Step]_vars

\* C5 witness: a request for a row that is not deployed was answered 404
\* while a deployed model had served a prediction.
C5_Witness ==
  /\ resp.op = "predict" /\ resp.code = 404
  /\ models[resp.id].exists /\ models[resp.id].status = "inactive"
  /\ resp.id \notin loaded
  /\ \E k \in ModelIds : models[k].api_calls_count = 1 /\ k \in loaded

\* ------------------------------------------------------------------------
\* app/routers/upload.py and app/services/file_processor.py
\* ------------------------------------------------------------------------
allowed_extensions == {".csv", ".xlsx", ".xls", ".json"}

\* 50 * 1024 * 1024 bytes, counted in megabytes
SizeLimit == 50

\* Uploaded files: whether a filename was sent, its suffix, the reported
\* size in megabytes (0: not reported), whether pandas can parse the
\* content, and the data rows and columns the content holds.
Uploads ==
  { [named |-> TRUE, ext |-> ".csv", size |-> 1, parses |-> TRUE,
     rows |-> 1, cols |-> c] : c \in 1..MaxCols }
  \cup
  { [named |-> TRUE, ext |-> e, size |-> 1, parses |-> TRUE,
     rows |-> 1, cols |-> 1] : e \in {".xlsx", ".xls", ".json", ".txt"} }
  \cup
  { [named |-> FALSE, ext |-> ".csv", size |-> 1, parses |-> TRUE,
     rows |-> 1, cols |-> 1],
    [named |-> TRUE, ext |-> ".csv", size |-> 51, parses |-> TRUE,
     rows |-> 1, cols |-> 1],
    [named |-> TRUE, ext |-> ".csv", size |-> 0, parses |-> TRUE,
     rows |-> 1, cols |-> 1],
    [named |-> TRUE, ext |-> ".csv", size |-> 1, parses |-> FALSE,
     rows |-> 0, cols |-> 0],
    [named |-> TRUE, ext |-> ".xls", size |-> 1, parses |-> TRUE,
     rows |-> 0, cols |-> 1] }

\* FileProcessor._read_file_safe: the extensions it reads
Readable(f) == f.ext = ".csv" \/ f.ext \in {".xlsx", ".xls"}

\* FileProcessor.process_file returns (does not raise)
Processes(f) ==
  /\ Readable(f)
  /\ f.parses
  /\ f.rows > 0
  /\ f.cols > 0

UploadRejectionNoOwner(u, p, f) ==
  IF ~f.named THEN 400
  ELSE IF f.ext \notin allowed_extensions THEN 400
  ELSE IF f.size # 0 /\ f.size > SizeLimit THEN 400
  ELSE 0

\* The status code of upload_file up to the ownership check; 0 when the
\* request passes all checks.
UploadRejection(u, p, f) ==
  IF ~f.named THEN 400
  ELSE IF f.ext \notin allowed_extensions THEN 400
  ELSE IF f.size # 0 /\ f.size > SizeLimit THEN 400
  ELSE IF ~OwnedProject(u, p) THEN 404
  ELSE 0

\* upload_file
UploadFile(u, p, f) ==
  /\ app = "backend"
  /\ IF UploadRejection(u, p, f) # 0
     THEN /\ resp' = Reply("upload_file", u, 0, UploadRejection(u, p, f))
          /\ UNCHANGED <<datasets, columns, files, nDatasets, uploader>>
     ELSE IF ~Processes(f)
     THEN \* the file is written, processing raises, the file is unlinked
          /\ resp' = Reply("upload_file", u, 0, 500)
          /\ UNCHANGED <<datasets, columns, files, nDatasets, uploader>>
     ELSE /\ nDatasets < MaxDatasets
          /\ nDatasets' = nDatasets + 1
          /\ files' = files \cup {nDatasets + 1}
          /\ datasets' = [datasets EXCEPT ![nDatasets + 1] =
                            [exists |-> TRUE, project_id |-> p,
                             ext |-> f.ext]]
          /\ columns' = [columns EXCEPT ![nDatasets + 1] = f.cols]
          /\ uploader' = [uploader EXCEPT ![nDatasets + 1] = u]
          /\ resp' = [Reply("upload_file", u, nDatasets + 1, 200) EXCEPT
                        !.state = "ready", !.progress = f.cols]
  /\ UNCHANGED <<app, frameVars, mainVars, projectVars, schema, trainVars, inferVars>>

\* The two checks of delete_dataset (and of the preview and validate
\* endpoints): 404 for an unknown dataset, 403 unless its project is the
\* caller's.
DatasetAccess(u, d) ==
  IF ~datasets[d].exists THEN 404
  ELSE IF ~OwnedProject(u, datasets[d].project_id) THEN 403
  ELSE 200

\* The status code of get_dataset_columns: 404 without column rows; the
\* ownership check is made only when the Dataset row is found.
ColumnsCode(u, d) ==
  IF columns[d] = 0 THEN 404
  ELSE IF datasets[d].exists /\ ~OwnedProject(u, datasets[d].project_id)
       THEN 403
  ELSE 200

\* get_dataset_columns
GetDatasetColumns(u, d) ==
  /\ app = "backend"
  /\ resp' = IF ColumnsCode(u, d) # 200
             THEN Reply("get_dataset_columns", u, d, ColumnsCode(u, d))
             ELSE [Reply("get_dataset_columns", u, d, 200) EXCEPT
                     !.progress = columns[d]]
  /\ UNCHANGED <<app, frameVars, mainVars, dbVars>>

\* delete_dataset: the file is unlinked, the DatasetColumn rows are selected
\* (not deleted), the Dataset row is deleted and the session committed.
DeleteDataset(u, d) ==
  /\ app = "backend"
  /\ IF DatasetAccess(u, d) # 200
     THEN /\ resp' = Reply("delete_dataset", u, d, DatasetAccess(u, d))
          /\ UNCHANGED <<datasets, columns, files>>
     ELSE /\ files' = files \ {d}
          /\ IF schema = "restrict" /\ columns[d] > 0
             THEN \* the commit raises: "Deletion failed"
                  /\ resp' = Reply("delete_dataset", u, d, 500)
                  /\ UNCHANGED <<datasets, columns>>
             ELSE /\ datasets' = [datasets EXCEPT ![d] = NoDataset]
                  /\ columns' = IF schema = "cascade"
                                THEN [columns EXCEPT ![d] = 0]
                                ELSE columns
                  /\ resp' = Reply("delete_dataset", u, d, 200)
  /\ UNCHANGED <<app, frameVars, mainVars, projectVars, schema, nDatasets, uploader,
                 trainVars, inferVars>>

\* ------------------------------------------------------------------------
\* The application of backend/main.py, upload router
\* ------------------------------------------------------------------------
InitUpload ==
  /\ app = "backend"
  /\ NoFrame
  /\ NoCelery
  /\ resp = NoResp
  /\ plan = [u \in Users |-> "free"]
  /\ projects \in ProjectTables
  /\ nProjects = MaxProjects
  /\ reqs = EmptyBag
  /\ NoUpload
  /\ schema \in Schemas
  /\ NoInference
  /\ jobs = [j \in JobIds |-> NoJob]
  /\ trainTasks = [j \in JobIds |-> NoTrainTask]
  /\ nJobs = 0

NextUpload ==
  \/ \E u \in Users, p \in ProjectIds, f \in Uploads : UploadFile(u, p, f)
  \/ \E u \in Users, d \in DatasetIds : GetDatasetColumns(u, d)
  \/ \E u \in Users, d \in DatasetIds : DeleteDataset(u, d)

SpecUpload == InitUpload /\ [][NextUpload]_vars

\* C10: get_dataset_columns returns the column records of a dataset only to
\* the user who owns the dataset's project, after any sequence of
\* upload_file and delete_dataset requests; every other caller gets 403 or
\* 404 and no column data.
C10_ColumnsOnlyToOwner ==
  (resp.op = "get_dataset_columns" /\ resp.user # uploader[resp.id]) =>
     resp.code \in {403, 404} /\ resp.progress = 0

\* C11: after a delete_dataset request answered 'Dataset deleted
\* successfully', the stored file, the Dataset row and every DatasetColumn
\* row of that dataset_id are gone.
C11_DeleteRemovesAll ==
  (resp.op = "delete_dataset" /\ resp.code = 200) =>
     /\ resp.id \notin files
     /\ ~datasets[resp.id].exists
     /\ columns[resp.id] = 0

\* The request is one the claim says upload_file answers 400.
BadRequest(f) ==
  \/ ~f.named
  \/ f.ext \notin {".csv", ".xlsx", ".xls", ".json"}
  \/ f.size > 50

\* C12 (step): an upload_file request with a missing filename, an extension
\* that is not allowed, a reported size above 50 MB, or a project that is
\* not the caller's.
C12_Step ==
  \A u \in Users, p \in ProjectIds, f \in Uploads :
    UploadFile(u, p, f) =>
      /\ BadRequest(f) => resp'.code = 400
      /\ (~BadRequest(f) /\ ~OwnedProject(u, p)) => resp'.code = 404
      /\ (BadRequest(f) \/ ~OwnedProject(u, p)) =>
            /\ files' = files
            /\ datasets' = datasets
            /\ columns' = columns

\* C12: upload_file answers 400 for a missing filename, an extension that
\* is not allowed or a reported size above 50 MB, and 404 for a project the
\* caller does not own; in each case no file is written and no Dataset or
\* DatasetColumn row is stored.
C12_RejectionLeavesNoTrace == [][C12_Step]_vars

\* C12 witness: an upload was answered 404 after an earlier upload had been
\* stored, and the tables hold that one dataset only.
C12_Witness ==
  /\ resp.op = "upload_file" /\ resp.code = 404
  /\ nDatasets = 1 /\ files = {1}
  /\ datasets[1].exists /\ columns[1] > 0
  /\ \A d \in DatasetIds \ {1} : ~datasets[d].exists /\ columns[d] = 0

\* C13 (step): an upload, to a project the caller owns, of a file with an
\* allowed extension that holds at least one data row and one column.
C13_Step ==
  \A u \in Users, p \in ProjectIds, f \in Uploads :
    ( /\ UploadFile(u, p, f)
      /\ f.named /\ f.size <= 50 /\ f.parses
      /\ f.ext \in {".csv", ".xlsx", ".xls", ".json"}
      /\ f.rows >= 1 /\ f.cols >= 1
      /\ OwnedProject(u, p) ) =>
        /\ resp'.code = 200 /\ resp'.state = "ready"
        /\ datasets'[resp'.id].exists

\* C13: upload_file supports every extension it lists as allowed (.csv,
\* .xlsx, .xls, .json): such a file with at least one data row and one
\* column, uploaded to a project the caller owns, is processed and stored
\* as a Dataset with upload_status 'ready'.
C13_AllowedExtensionsStored == [][C13_Step]_vars

\* ------------------------------------------------------------------------
\* main.py: the mock prediction endpoint and the worker status endpoint
\* ------------------------------------------------------------------------
\* Texts are sequences of characters.
UpperCase ==
  << "A", "B", "C", "D", "E", "F", "G", "H", "I", "J", "K", "L", "M",
     "N", "O", "P", "Q", "R", "S", "T", "U", "V", "W", "X", "Y", "Z" >>

LowerCase ==
  << "a", "b", "c", "d", "e", "f", "g", "h", "i", "j", "k", "l", "m",
     "n", "o", "p", "q", "r", "s", "t", "u", "v", "w", "x", "y", "z" >>

\* str.lower() on one character
LowerChar(c) ==
  IF \E i \in 1..Len(UpperCase) : UpperCase[i] = c
  THEN LowerCase[CHOOSE i \in 1..Len(UpperCase) : UpperCase[i] = c]
  ELSE c

\* request.text.lower()
Lower(t) == [i \in 1..Len(t) |-> LowerChar(t[i])]

\* word in text
Contains(t, w) ==
  \E i \in 1..(Len(t) - Len(w) + 1) : SubSeq(t, i, i + Len(w) - 1) = w

keywordsFewer ==
  { << "s", "b", "u" >>, << "k", "b", "l", "i" >>, << "n", "p", "w", "p" >>,
    << "i", "z", "i", "n" >>, << "m", "e", "n", "g", "u", "r", "u", "s" >> }

\* ['sbu', 'kbli', 'npwp', 'siup', 'izin', 'mengurus']
keywords ==
  { << "s", "b", "u" >>, << "k", "b", "l", "i" >>, << "n", "p", "w", "p" >>,
    << "s", "i", "u", "p" >>, << "i", "z", "i", "n" >>,
    << "m", "e", "n", "g", "u", "r", "u", "s" >> }

\* The rule-based mock prediction of predict_with_model.
MockPrediction(t) ==
  IF \E w \in keywords : Contains(Lower(t), w) THEN "layanan"
  ELSE "pengaduan"

\* sample_texts of GET /test/sample-prediction
SampleTexts == <<
  << "S", "a", "y", "a", " ", "i", "n", "g", "i", "n", " ", "m", "e", "n",
     "g", "u", "r", "u", "s", " ", "S", "B", "U", " ", "k", "o", "n", "s",
     "t", "r", "u", "k", "s", "i" >>,
  << "K", "e", "n", "a", "p", "a", " ", "N", "I", "B", " ", "s", "a", "y",
     "a", " ", "b", "e", "l", "u", "m", " ", "k", "e", "l", "u", "a", "r",
     "?" >>,
  << "W", "e", "b", "s", "i", "t", "e", " ", "O", "S", "S", " ", "e", "r",
     "r", "o", "r", " ", "t", "e", "r", "u", "s" >>,
  << "B", "a", "g", "a", "i", "m", "a", "n", "a", " ", "c", "a", "r", "a",
     " ", "p", "e", "r", "p", "a", "n", "j", "a", "n", "g", " ", "S", "I",
     "U", "P", "?" >> >>

\* expected_results of GET /test/sample-prediction
ExpectedResults == << "layanan", "pengaduan", "pengaduan", "layanan" >>

Alphabet == {"s", "b", "u", "B"}

RECURSIVE TextsOfLen(_)
TextsOfLen(n) ==
  IF n = 0 THEN { << >> }
  ELSE { Append(t, c) : t \in TextsOfLen(n - 1), c \in Alphabet }

\* The request texts: the sample texts, every text of at most MaxLen
\* characters of Alphabet, and a few more.
Texts ==
  { SampleTexts[i] : i \in 1..Len(SampleTexts) }
  \cup UNION { TextsOfLen(n) : n \in 0..MaxLen }
  \cup { << "K", "B", "L", "I" >>, << "n", "p", "w", "p" >>,
         << "P", "e", "r", "i", "z", "i", "n", "a", "n" >>,
         << "u", "r", "u", "s" >>, << "i", "z", "n" >> }

\* The model ids a client can ask for: deploy_model has returned the ids
\* up to nModels, the others were never deployed.
PredictIds == 1..MaxDeploys

\* POST /models/{model_id}/predict
PredictWithModel(m, t) ==
  /\ app = "mock"
  /\ text' = t
  /\ resp' = [Reply("predict_with_model", "none", m, 200) EXCEPT
                !.result = MockPrediction(t), !.model_id = m]
  /\ UNCHANGED <<app, frameVars, celery, lastProgress, nModels, dbVars>>

WorkerNames == 1..MaxWorkers

\* What celery_app.control.inspect().active() does: it raises (broker
\* unreachable), returns None (no worker replied) or returns a dict with an
\* entry for every worker that replied.
ActiveReplies ==
  { [kind |-> "raise", names |-> {}], [kind |-> "none", names |-> {}] }
  \cup { [kind |-> "dict", names |-> w] : w \in (SUBSET WorkerNames) \ {{}} }

\* What inspect.stats() does: it raises or returns.
StatsReplies == {"raise", "ok"}

WorkerStatusCodeNoCatch(a, s) ==
  IF a.kind = "raise" \/ s = "raise" THEN 500 ELSE 200

\* The status code of get_worker_status: the except clause returns a body.
WorkerStatusCode(a, s) == 200

\* The status field of the body of get_worker_status.
WorkerStatus(a, s) ==
  IF a.kind = "raise" \/ s = "raise" THEN "error"
  ELSE IF a.kind = "dict" /\ a.names # {} THEN "healthy"
  ELSE "no_workers"

\* GET /training/worker-status
GetWorkerStatus(a, s) ==
  /\ app = "mock"
  /\ text' = << >>
  /\ resp' = IF WorkerStatusCode(a, s) # 200
             THEN Reply("worker_status", "none", 0, WorkerStatusCode(a, s))
             ELSE [Reply("worker_status", "none", 0, 200) EXCEPT
                     !.state = WorkerStatus(a, s),
                     !.workers = IF WorkerStatus(a, s) = "healthy"
                                 THEN Cardinality(a.names) ELSE 0,
                     !.ids = IF WorkerStatus(a, s) = "healthy"
                             THEN a.names ELSE {}]
  /\ UNCHANGED <<app, frameVars, celery, lastProgress, nModels, dbVars>>

\* main.py after one job was started, trained by the worker and deployed.
OneModelDeployed ==
  /\ celery = [j \in TaskIds |->
                 IF j = 1 THEN [kind |-> "train", state |-> "SUCCESS",
                                pos |-> Len(steps), progress |-> 100]
                 ELSE NoTask]
  /\ lastProgress = [j \in TaskIds |-> 0]
  /\ nModels = 1
  /\ text = << >>

InitMock ==
  /\ app = "mock"
  /\ NoFrame
  /\ EmptyDb
  /\ NoCelery \/ OneModelDeployed
  /\ resp = NoResp

NextMock ==
  \/ \E m \in PredictIds, t \in Texts : PredictWithModel(m, t)
  \/ \E a \in ActiveReplies, s \in StatsReplies : GetWorkerStatus(a, s)

SpecMock == InitMock /\ [][NextMock]_vars

\* The worker inspection returned, without an exception, at least one
\* worker.
ReturnedWorkers(a, s) ==
  a.kind # "raise" /\ s # "raise" /\ a.names # {}

\* C14 (step): a worker-status request.
C14_Step ==
  \A a \in ActiveReplies, s \in StatsReplies :
    GetWorkerStatus(a, s) =>
      /\ resp'.code = 200
      /\ resp'.state \in {"healthy", "no_workers", "error"}
      /\ resp'.state = "healthy" <=> ReturnedWorkers(a, s)
      /\ resp'.state = "healthy" =>
           resp'.workers = Cardinality(a.names) /\ resp'.workers > 0
      /\ (a.kind = "raise" \/ s = "raise") => resp'.state = "error"

\* C14: GET /training/worker-status never fails: it answers 200 with status
\* one of 'healthy', 'no_workers', 'error'; the status is 'healthy' if and
\* only if the inspection returned at least one worker, and then the
\* workers count is the number of workers and is positive; an exception
\* during the inspection yields 'error', not an HTTP error.
C14_WorkerStatusNeverFails == [][C14_Step]_vars

\* C14 witness: the endpoint answered 'healthy' with every worker counted.
C14_Witness ==
  /\ resp.op = "worker_status" /\ resp.code = 200
  /\ resp.state = "healthy"
  /\ resp.ids = WorkerNames /\ resp.workers = MaxWorkers

\* The lower-cased text holds the keyword w at some position.
HasKeyword(t, w) ==
  \E i \in 1..Len(t) :
    /\ i + Len(w) - 1 <= Len(t)
    /\ \A k \in 1..Len(w) : LowerChar(t[i + k - 1]) = w[k]

\* The class the claim gives a text.
ExpectedClass(t) ==
  IF \/ HasKeyword(t, <<"s", "b", "u">>)
     \/ HasKeyword(t, <<"k", "b", "l", "i">>)
     \/ HasKeyword(t, <<"n", "p", "w", "p">>)
     \/ HasKeyword(t, <<"s", "i", "u", "p">>)
     \/ HasKeyword(t, <<"i", "z", "i", "n">>)
     \/ HasKeyword(t, <<"m", "e", "n", "g", "u", "r", "u", "s">>)
  THEN "layanan"
  ELSE "pengaduan"

\* C15: predict_with_model answers every request, for a model id that was
\* deployed or not, with 'layanan' if the lower-cased text contains one of
\* sbu, kbli, npwp, siup, izin, mengurus and with 'pengaduan' otherwise;
\* the four sample texts get layanan, pengaduan, pengaduan, layanan.
C15_MockPrediction ==
  resp.op = "predict_with_model" =>
    /\ resp.code = 200
    /\ resp.result \in {"layanan", "pengaduan"}
    /\ resp.result = ExpectedClass(text)
    /\ \A i \in 1..Len(SampleTexts) :
         text = SampleTexts[i] => resp.result = ExpectedResults[i]

\* C15 witness: the fourth sample text was classified for a model id that
\* was never deployed.
C15_Witness ==
  /\ resp.op = "predict_with_model" /\ resp.code = 200
  /\ text = SampleTexts[4] /\ resp.result = "layanan"
  /\ resp.model_id > nModels

\* ------------------------------------------------------------------------
\* backup/main.py: get_dataset_preview
\* ------------------------------------------------------------------------
\* df.iloc[start_idx:end_idx] for start_idx, end_idx >= 0: the rows, by
\* position 0..total_rows - 1, that the slice selects.
Slice(total_rows, start_idx, end_idx) ==
  {i \in 0..(total_rows - 1) : start_idx <= i /\ i < end_idx}

\* page_data of the page: start_idx = (page - 1) * rows,
\* end_idx = start_idx + rows
PageData(total_rows, rows, page) ==
  Slice(total_rows, (page - 1) * rows, (page - 1) * rows + rows)

TotalPagesFloor(total_rows, rows) == total_rows \div rows

\* "total_pages": (total_rows + rows - 1) // rows
TotalPages(total_rows, rows) == (total_rows + rows - 1) \div rows

\* "has_next": end_idx < total_rows
HasNext(total_rows, rows, page) == (page - 1) * rows + rows < total_rows

\* The rows and page query parameters of the requests.
RowsParams == 0..MaxPageRows
PageParams == 1..MaxPage

\* GET /upload/dataset/{dataset_id}/preview; rows = 0 raises
\* ZeroDivisionError at total_pages, which the except clause turns into 500.
GetDatasetPreview(rows, page) ==
  /\ app = "backup"
  /\ preview' =
       IF rows = 0 THEN [NoPreview EXCEPT !.code = 500]
       ELSE [code |-> 200,
             data |-> PageData(df.total, rows, page),
             rows_shown |-> Cardinality(PageData(df.total, rows, page)),
             total_rows |-> df.total,
             current_page |-> page,
             rows_per_page |-> rows,
             total_pages |-> TotalPages(df.total, rows),
             has_next |-> HasNext(df.total, rows, page),
             has_previous |-> page > 1]
  /\ UNCHANGED <<app, df, col_info, resp, mainVars, dbVars>>

\* The uploaded file holds between 0 and MaxRows data rows.
InitPreview ==
  /\ app = "backup"
  /\ \E n \in 0..MaxRows : df = [NoDf EXCEPT !.total = n]
  /\ col_info = NoColInfo
  /\ preview = NoPreview
  /\ EmptyDb
  /\ NoCelery
  /\ resp = NoResp

NextPreview ==
  \E rows \in RowsParams, page \in PageParams : GetDatasetPreview(rows, page)

SpecPreview == InitPreview /\ [][NextPreview]_vars

\* ceil(a / b) for a >= 0, b >= 1
Ceil(a, b) == CHOOSE k \in 0..a : k * b >= a /\ (k > 0 => (k - 1) * b < a)

Min(a, b) == IF a <= b THEN a ELSE b

Max(a, b) == IF a >= b THEN a ELSE b

RECURSIVE SumRowsShown(_, _, _)
\* The sum of rows_shown over the pages 1..p.
SumRowsShown(total_rows, rows, p) ==
  IF p = 0 THEN 0
  ELSE Cardinality(PageData(total_rows, rows, p))
         + SumRowsShown(total_rows, rows, p - 1)

\* C16: for total_rows >= 0, rows >= 1 and page >= 1 the paginated preview
\* has total_pages = ceil(total_rows / rows), has_previous iff page > 1,
\* has_next iff page < total_pages, rows_shown = min(rows, max(0,
\* total_rows - (page - 1) * rows)), and the pages 1..total_pages partition
\* the rows: their rows_shown sum to total_rows, no row is repeated or
\* skipped.
C16_PreviewPagination ==
  preview.code = 200 =>
    LET T == preview.total_rows
        r == preview.rows_per_page
        p == preview.current_page
    IN  /\ T = df.total
        /\ preview.total_pages = Ceil(T, r)
        /\ preview.has_previous <=> p > 1
        /\ preview.has_next <=> p < preview.total_pages
        /\ preview.rows_shown = Min(r, Max(0, T - (p - 1) * r))
        /\ preview.rows_shown = Cardinality(preview.data)
        /\ SumRowsShown(T, r, preview.total_pages) = T
        /\ UNION {PageData(T, r, q) : q \in 1..preview.total_pages}
             = 0..(T - 1)
        /\ \A q1, q2 \in 1..preview.total_pages :
             q1 # q2 => PageData(T, r, q1) \cap PageData(T, r, q2) = {}
        /\ p \in 1..preview.total_pages => preview.data = PageData(T, r, p)

\* C16 witness: the last page of a file whose rows do not fill it, after at
\* least one full page.
C16_Witness ==
  /\ preview.code = 200
  /\ preview.current_page = preview.total_pages
  /\ preview.current_page > 1
  /\ preview.rows_shown > 0
  /\ preview.rows_shown < preview.rows_per_page
  /\ ~preview.has_next

\* ------------------------------------------------------------------------
\* app/services/file_processor.py: _is_potential_target
\* ------------------------------------------------------------------------
TooManyMissingFrom(nulls, total_count) == nulls * 10 >= total_count

\* col_data.isnull().sum() / total_count > 0.1
TooManyMissing(nulls, total_count) == nulls * 10 > total_count

\* 'id' in column_name.lower()
LikelyId(name) == Contains(Lower(name), <<"i", "d">>)

\* FileProcessor._is_potential_target
IsPotentialTarget(c) ==
  IF TooManyMissing(c.nulls, c.total) THEN FALSE
  ELSE IF LikelyId(c.name) THEN FALSE
  ELSE IF 2 <= c.uniques /\ c.uniques <= 20 THEN TRUE
  ELSE FALSE

\* Column names of an uploaded file.
ColumnNames ==
  { <<"i", "d">>, <<"I", "D">>, <<"U", "s", "e", "r", "_", "I", "d">>,
    <<"v", "a", "l", "i", "d">>, <<"l", "a", "b", "e", "l">>,
    <<"t", "e", "x", "t">>, <<"d", "i">> }

\* The columns of a non-empty DataFrame: total_count values, of which
\* nulls are missing, and nunique() distinct values among the others.
Columns ==
  { [total |-> t, nulls |-> n, uniques |-> q, name |-> c] :
      t \in 1..MaxTotal, n \in 0..MaxTotal, q \in 0..MaxTotal,
      c \in ColumnNames }

ValidColumn(c) ==
  /\ c.nulls <= c.total
  /\ c.uniques <= c.total - c.nulls
  /\ c.total - c.nulls > 0 => c.uniques >= 1

\* process_file: col_info['is_recommended_target'] of the column at hand
AnalyseColumn ==
  /\ app = "processor"
  /\ ~col_info.analysed
  /\ col_info' = [analysed |-> TRUE,
                  is_recommended_target |-> IsPotentialTarget(df)]
  /\ UNCHANGED <<app, df, preview, resp, mainVars, dbVars>>

InitProcessor ==
  /\ app = "processor"
  /\ df \in {c \in Columns : ValidColumn(c)}
  /\ col_info = NoColInfo
  /\ preview = NoPreview
  /\ EmptyDb
  /\ NoCelery
  /\ resp = NoResp

NextProcessor == AnalyseColumn

SpecProcessor == InitProcessor /\ [][NextProcessor]_vars

\* The name contains 'id', case-insensitively.
NameHasId(name) ==
  \E i \in 1..(Len(name) - 1) :
    /\ name[i] \in {"i", "I"}
    /\ name[i + 1] \in {"d", "D"}

\* The reference predicate of the claim.
ReferenceTarget(c) ==
  /\ 10 * c.nulls <= c.total
  /\ ~NameHasId(c.name)
  /\ c.uniques \in 2..20

\* C17: _is_potential_target recommends a column as target if and only if
\* at most 10% of its values are missing, its name does not contain 'id'
\* (case-insensitive), and its number of distinct non-null values is
\* between 2 and 20 inclusive.
C17_PotentialTarget ==
  col_info.analysed => (col_info.is_recommended_target <=> ReferenceTarget(df))

\* C17 witness: a column with exactly 10% of its values missing and 20
\* distinct values was recommended.
C17_Witness ==
  /\ col_info.analysed /\ col_info.is_recommended_target
  /\ df.nulls > 0 /\ df.nulls * 10 = df.total
  /\ df.uniques = 20

====
